---- MODULE Spec2Model ----
(***************************************************************************)
(* Booking store, workflow-status catalog and availability check of the    *)
(* Brunnsbo booking application (server/storage.ts, server/routes.ts).     *)
(*                                                                         *)
(* Instants are whole minutes: At(d, h, m) is minute m of hour h of day d. *)
(* A Date built as new Date(t.getTime() + minutes * 60000) is t + minutes. *)
(***************************************************************************)
EXTENDS Integers, Sequences, FiniteSets, TLC

VARIABLES
    statuses,      \* rows of table workflow_statuses
    bookings,      \* rows of table event_bookings, in insertion order
    activityLogs,  \* rows of table activity_logs, in insertion order
    avail,         \* per client: the last answer of GET /api/calendar/availability
    resp,          \* per client: HTTP status of the last POST /api/bookings (0: none)
    last,          \* the last admin or calendar request and what it was answered
    inFlight       \* admin calls on the catalog that are between two statements

vars == <<statuses, bookings, activityLogs, avail, resp, last, inFlight>>

----------------------------------------------------------------------------
(* Bounds of the model *)

\* bookings already in the store, besides the history, when a check is made
MaxExtra == 2
\* bookings created through the public form in one behaviour
MaxBookings == 2
\* rows of activity_logs in one behaviour
MaxLogs == 3

----------------------------------------------------------------------------
(* Reference data *)

At(d, h, m) == d * 1440 + h * 60 + m

\* undefined / null
None == "none"

\* .limit(10) of the availability query
ScanLimit == 10

\* Event types an administrator has configured (insertEventTypeSchema allows
\* any buffer in 0..240): A needs two hours before, B half an hour after.
EventTypes ==
    [ type_a |-> [bufferBeforeMinutes |-> 120, bufferAfterMinutes |-> 0],
      type_b |-> [bufferBeforeMinutes |-> 0,   bufferAfterMinutes |-> 30] ]

EventTypeIds == DOMAIN EventTypes

\* defaultWorkflowStatuses, with the ids the seed script gives them
defaultWorkflowStatuses ==
    { [id |-> "s1", slug |-> "pending",   name |-> "Nya forfragningar",
       isDefault |-> TRUE,  isFinal |-> FALSE, isActive |-> TRUE],
      [id |-> "s2", slug |-> "reviewing", name |-> "Under granskning",
       isDefault |-> FALSE, isFinal |-> FALSE, isActive |-> TRUE],
      [id |-> "s3", slug |-> "approved",  name |-> "Godkant",
       isDefault |-> FALSE, isFinal |-> FALSE, isActive |-> TRUE],
      [id |-> "s4", slug |-> "completed", name |-> "Slutfort",
       isDefault |-> FALSE, isFinal |-> TRUE,  isActive |-> TRUE] }

Clients == {"c1", "c2"}

\* no admin or calendar request has been made yet
NoRequest == [op |-> "none"]

\* no admin call is between two statements
NoCalls == <<>>

----------------------------------------------------------------------------
(* Workflow status lookups *)

\* what a lookup yields when no row matches (undefined)
NoStatus ==
    [id |-> None, slug |-> None, name |-> None,
     isDefault |-> FALSE, isFinal |-> FALSE, isActive |-> FALSE]

\* const [status] = select ... where slug = :slug   (slug is UNIQUE)
getWorkflowStatusBySlug(st, slug) ==
    LET rows == {s \in st : s.slug = slug}
    IN  IF rows = {} THEN NoStatus ELSE CHOOSE s \in rows : TRUE

\* const [status] = select ... where id = :id
getWorkflowStatus(st, id) ==
    LET rows == {s \in st : s.id = id}
    IN  IF rows = {} THEN NoStatus ELSE CHOOSE s \in rows : TRUE

\* the status slugged "pending" taken for the default, whatever is flagged
PendingStatusRows(st) == {s \in st : s.slug = "pending"}

\* select ... where is_default = true; throws when there is none.
\* Without ORDER BY any of the matching rows may come first.
DefaultStatusRows(st) == {s \in st : s.isDefault}

----------------------------------------------------------------------------
(* isTimeSlotAvailable *)

\* new Date(bookingStart.getTime() + booking.durationMinutes * 60000)
BookingEnd(b) == b.startAt + b.durationMinutes

\* WhereClause without the exclusion of the "pending" status
WhereClauseWithPending(b, st, endTime, pendingStatus) ==
    /\ b.startAt <= endTime
    /\ \E s \in st : s.id = b.statusId /\ s.isActive = TRUE

\* WhereClause without the condition on the status being active
WhereClauseInactiveToo(b, st, endTime, pendingStatus) ==
    /\ b.startAt <= endTime
    /\ \E s \in st : s.id = b.statusId
    /\ (pendingStatus # NoStatus => b.statusId # pendingStatus.id)

\* The WHERE clause in force when the query runs.  A second .where() replaces
\* the first, so with a "pending" status the three conditions apply, without
\* one the two.  The inner join drops bookings whose status row is missing.
WhereClause(b, st, endTime, pendingStatus) ==
    /\ b.startAt <= endTime
    /\ \E s \in st : s.id = b.statusId /\ s.isActive = TRUE
    /\ (pendingStatus # NoStatus => b.statusId # pendingStatus.id)

MatchingRows(bk, st, endTime) ==
    LET pendingStatus == getWorkflowStatusBySlug(st, "pending")
    IN  {i \in DOMAIN bk : WhereClause(bk[i], st, endTime, pendingStatus)}

RECURSIVE KSubsets(_, _)
KSubsets(S, k) ==
    IF k = 0 THEN {{}}
    ELSE IF S = {} THEN {}
    ELSE LET x == CHOOSE y \in S : TRUE
         IN  KSubsets(S \ {x}, k) \cup {T \cup {x} : T \in KSubsets(S \ {x}, k - 1)}

\* .limit(10) without ORDER BY: when more rows match, the store returns some
\* ten of them; which ten is not determined by the query.
QueryResults(bk, st, endTime) ==
    LET m == MatchingRows(bk, st, endTime)
        n == Cardinality(m)
    IN  IF n <= ScanLimit THEN {m}
        ELSE {m \ D : D \in KSubsets(m, n - ScanLimit)}

\* Overlaps with the comparisons made inclusive (<=, >=)
OverlapsInclusive(b, startTime, endTime) ==
    b.startAt <= endTime /\ BookingEnd(b) >= startTime

\* bookingStart < endTime && bookingEnd > startTime
Overlaps(b, startTime, endTime) ==
    b.startAt < endTime /\ BookingEnd(b) > startTime

\* the for loop: false at the first conflict, true when there is none
ScanForConflict(rows, bk, startTime, endTime) ==
    \E i \in rows : Overlaps(bk[i], startTime, endTime)

\* isTimeSlotAvailable(startTime, durationMinutes) when the query returned rows
isTimeSlotAvailable(rows, bk, startTime, durationMinutes) ==
    ~ScanForConflict(rows, bk, startTime, startTime + durationMinutes)

\* every answer isTimeSlotAvailable can give on this store
AvailabilityOutcomes(bk, st, startTime, durationMinutes) ==
    { isTimeSlotAvailable(rows, bk, startTime, durationMinutes) :
        rows \in QueryResults(bk, st, startTime + durationMinutes) }

----------------------------------------------------------------------------
(* GET /api/calendar/availability *)

NoAnswer ==
    [st |-> "none", startTime |-> 0, durationMinutes |-> 0, eventTypeId |-> None,
     rows |-> {}, available |-> FALSE, seen |-> 0]

\* CheckAvailability that also writes an entry into the activity log
CheckAvailabilityLogging(c, startTime, durationMinutes, eventTypeId) ==
    /\ Len(activityLogs) < MaxLogs
    /\ \E rows \in QueryResults(bookings, statuses, startTime + durationMinutes) :
          avail' = [avail EXCEPT ![c] =
                      [st |-> "done", startTime |-> startTime,
                       durationMinutes |-> durationMinutes,
                       eventTypeId |-> eventTypeId, rows |-> rows,
                       available |-> isTimeSlotAvailable(rows, bookings, startTime,
                                                         durationMinutes),
                       seen |-> Len(bookings)]]
    /\ activityLogs' = Append(activityLogs,
                              [bookingId |-> 0, action |-> "updated",
                               details |-> <<"checked">>, userId |-> None,
                               userName |-> "System"])
    /\ UNCHANGED <<statuses, bookings, resp, last, inFlight>>

\* A request with a well-formed startTime and durationMinutes.  The route
\* passes eventTypeId as a third argument, which isTimeSlotAvailable(startTime,
\* durationMinutes) does not take.  rows and seen record what the query
\* returned and how many bookings were stored when it ran.
CheckAvailability(c, startTime, durationMinutes, eventTypeId) ==
    /\ \E rows \in QueryResults(bookings, statuses, startTime + durationMinutes) :
          avail' = [avail EXCEPT ![c] =
                      [st |-> "done", startTime |-> startTime,
                       durationMinutes |-> durationMinutes,
                       eventTypeId |-> eventTypeId, rows |-> rows,
                       available |-> isTimeSlotAvailable(rows, bookings, startTime,
                                                         durationMinutes),
                       seen |-> Len(bookings)]]
    /\ UNCHANGED <<statuses, bookings, activityLogs, resp, last, inFlight>>

----------------------------------------------------------------------------
(* POST /api/bookings *)

\* eventBookingFormSchema: durationHours in [0.5, 8], here in hundredths of an hour
ValidForm(form) ==
    form.durationHundredths >= 50 /\ form.durationHundredths <= 800

\* new Date(`${requestedDate}T${startTime}`)
FormStartAt(form) == At(form.requestedDate, 0, form.startTime)

\* the duration cut off to whole minutes
FormDurationMinutesFloor(form) == (form.durationHundredths * 60) \div 100

\* Math.round(formData.durationHours * 60)
FormDurationMinutes(form) == (form.durationHundredths * 60 + 50) \div 100

\* the row createEventBooking inserts for the data createEventBookingFromForm builds
NewBooking(id, form, statusId) ==
    [id |-> id, eventType |-> form.eventType, contactName |-> form.contactName,
     startAt |-> FormStartAt(form), durationMinutes |-> FormDurationMinutes(form),
     additionalNotes |-> form.additionalNotes, statusId |-> statusId,
     assignedTo |-> None]

\* createEventBooking: insert the row with the status it was given
createEventBooking(bk, row) == Append(bk, row)

CreatedLog(bookingId) ==
    [bookingId |-> bookingId, action |-> "created", details |-> <<"created">>,
     userId |-> None, userName |-> "System"]

\* PostBooking made to consult the availability check and to refuse (409) a
\* slot it reports taken
PostBookingChecked(c, form) ==
    /\ Len(bookings) < MaxBookings
    /\ Len(activityLogs) < MaxLogs
    /\ IF ~ValidForm(form)
       THEN /\ resp' = [resp EXCEPT ![c] = 400]
            /\ UNCHANGED <<statuses, bookings, activityLogs, avail, last, inFlight>>
       ELSE IF FALSE \in AvailabilityOutcomes(bookings, statuses, FormStartAt(form),
                                              FormDurationMinutes(form))
       THEN /\ resp' = [resp EXCEPT ![c] = 409]
            /\ UNCHANGED <<statuses, bookings, activityLogs, avail, last, inFlight>>
       ELSE \E defaultStatus \in DefaultStatusRows(statuses) :
            LET id == Len(bookings) + 1
            IN  /\ bookings' = Append(bookings, NewBooking(id, form, defaultStatus.id))
                /\ activityLogs' = Append(activityLogs, CreatedLog(id))
                /\ resp' = [resp EXCEPT ![c] = 201]
                /\ UNCHANGED <<statuses, avail, last, inFlight>>

PostBooking(c, form) ==
    /\ Len(bookings) < MaxBookings
    /\ Len(activityLogs) < MaxLogs
    /\ IF ~ValidForm(form)
       THEN /\ resp' = [resp EXCEPT ![c] = 400]
            /\ UNCHANGED <<statuses, bookings, activityLogs, avail, last, inFlight>>
       ELSE IF DefaultStatusRows(statuses) = {}
       THEN /\ resp' = [resp EXCEPT ![c] = 500]
            /\ UNCHANGED <<statuses, bookings, activityLogs, avail, last, inFlight>>
       ELSE \E defaultStatus \in DefaultStatusRows(statuses) :
            LET id == Len(bookings) + 1
            IN  /\ bookings' = createEventBooking(bookings,
                                                  NewBooking(id, form, defaultStatus.id))
                /\ activityLogs' = Append(activityLogs, CreatedLog(id))
                /\ resp' = [resp EXCEPT ![c] = 201]
                /\ UNCHANGED <<statuses, avail, last, inFlight>>

----------------------------------------------------------------------------
(* updateEventBooking *)

Undefined == "undefined"

StatusName(st, id) ==
    getWorkflowStatus(st, id).name

LogEntry(bookingId, action, details, userId, userName) ==
    [bookingId |-> bookingId, action |-> action, details |-> details,
     userId |-> userId, userName |-> userName]

\* one log entry where updateEventBooking writes one per changed field
UpdateLogsAggregate(existing, updates, st, userId, userName) ==
    IF \/ updates.statusId # Undefined /\ updates.statusId # existing.statusId
       \/ updates.assignedTo # Undefined /\ updates.assignedTo # existing.assignedTo
       \/ updates.additionalNotes # Undefined
          /\ updates.additionalNotes # existing.additionalNotes
    THEN <<LogEntry(existing.id, "updated", <<"updated">>, userId, userName)>>
    ELSE <<>>

\* an entry for every field the update carries, changed or not
UpdateLogsAlways(existing, updates, st, userId, userName) ==
    (IF updates.statusId # Undefined
     THEN <<LogEntry(existing.id, "status_changed",
                     <<StatusName(st, existing.statusId), StatusName(st, updates.statusId)>>,
                     userId, userName)>>
     ELSE <<>>)
    \o
    (IF updates.assignedTo # Undefined
     THEN <<LogEntry(existing.id, "assigned",
                     <<existing.assignedTo, updates.assignedTo>>, userId, userName)>>
     ELSE <<>>)
    \o
    (IF updates.additionalNotes # Undefined
     THEN <<LogEntry(existing.id, "notes_added", <<updates.additionalNotes>>,
                     userId, userName)>>
     ELSE <<>>)

\* the entries updateEventBooking appends, in order, for one update
UpdateLogs(existing, updates, st, userId, userName) ==
    (IF updates.statusId # Undefined /\ updates.statusId # existing.statusId
     THEN <<LogEntry(existing.id, "status_changed",
                     <<StatusName(st, existing.statusId), StatusName(st, updates.statusId)>>,
                     userId, userName)>>
     ELSE <<>>)
    \o
    (IF updates.assignedTo # Undefined /\ updates.assignedTo # existing.assignedTo
     THEN <<LogEntry(existing.id, "assigned",
                     <<existing.assignedTo, updates.assignedTo>>, userId, userName)>>
     ELSE <<>>)
    \o
    (IF updates.additionalNotes # Undefined
        /\ updates.additionalNotes # existing.additionalNotes
     THEN <<LogEntry(existing.id, "notes_added", <<updates.additionalNotes>>,
                     userId, userName)>>
     ELSE <<>>)

\* ApplyUpdates that leaves the status of a booking in a final status alone
ApplyUpdatesFinalLocked(b, updates) ==
    [b EXCEPT
       !.statusId = IF updates.statusId = Undefined
                       \/ getWorkflowStatus(defaultWorkflowStatuses, b.statusId).isFinal
                    THEN @ ELSE updates.statusId,
       !.assignedTo = IF updates.assignedTo = Undefined THEN @ ELSE updates.assignedTo,
       !.additionalNotes =
           IF updates.additionalNotes = Undefined THEN @ ELSE updates.additionalNotes]

\* .set({...updates}): fields that are undefined are left as they are
ApplyUpdates(b, updates) ==
    [b EXCEPT
       !.statusId = IF updates.statusId = Undefined THEN @ ELSE updates.statusId,
       !.assignedTo = IF updates.assignedTo = Undefined THEN @ ELSE updates.assignedTo,
       !.additionalNotes =
           IF updates.additionalNotes = Undefined THEN @ ELSE updates.additionalNotes]

\* updateEventBooking(id, updates, userId, userName).  An id that is not stored
\* returns undefined; a statusId that names no status violates the foreign key
\* and the update throws: neither changes anything.
UpdateEventBooking(id, updates, userId, userName) ==
    /\ id \in DOMAIN bookings
    /\ updates.statusId = Undefined \/ getWorkflowStatus(statuses, updates.statusId) # NoStatus
    /\ LET existing == bookings[id]
           logs == UpdateLogs(existing, updates, statuses, userId, userName)
       IN  /\ Len(activityLogs) + Len(logs) <= MaxLogs
           /\ bookings' = [bookings EXCEPT ![id] = ApplyUpdates(existing, updates)]
           /\ activityLogs' = activityLogs \o logs
    /\ UNCHANGED <<statuses, avail, resp, last, inFlight>>

----------------------------------------------------------------------------
(* The booking application: public form, availability endpoint, admin updates *)

Init ==
    /\ statuses = defaultWorkflowStatuses
    /\ bookings = <<>>
    /\ activityLogs = <<>>
    /\ avail = [c \in Clients |-> NoAnswer]
    /\ resp = [c \in Clients |-> 0]
    /\ last = NoRequest
    /\ inFlight = NoCalls

\* what a visitor may enter in the public form: an hour from 10:00 or from
\* 10:30 on day 1 (a quarter of an hour is refused by the schema)
FormInputs(c) ==
    [eventType : {"type_b"}, contactName : {c}, requestedDate : {1},
     startTime : {600, 630}, durationHundredths : {25, 100},
     additionalNotes : {None}]

SlotStarts == {At(1, 10, 0), At(1, 10, 30)}

\* the updates an administrator sends in this model: a change of status
StatusUpdates ==
    [statusId : {s.id : s \in statuses}, assignedTo : {Undefined},
     additionalNotes : {Undefined}]

Check ==
    \E c \in Clients, s \in SlotStarts : CheckAvailability(c, s, 60, "type_b")

Post == \E c \in Clients : \E form \in FormInputs(c) : PostBooking(c, form)

Update ==
    \E id \in 1..MaxBookings : \E updates \in StatusUpdates :
        UpdateEventBooking(id, updates, "admin", "Admin")

Next == Check \/ Post \/ Update

Spec == Init /\ [][Next]_vars

----------------------------------------------------------------------------
(* The availability check as a function of the store *)

T0 == At(1, 10, 0)

StoredBooking(id, eventType, startAt, durationMinutes, statusId) ==
    [id |-> id, eventType |-> eventType, contactName |-> "stored",
     startAt |-> startAt, durationMinutes |-> durationMinutes,
     additionalNotes |-> None, statusId |-> statusId, assignedTo |-> None]

\* ten completed events of the day before, 09:00 to 18:00, half an hour each
PastBookings ==
    [i \in 1..ScanLimit |-> StoredBooking(i, "type_b", At(0, 8 + i, 0), 30, "s4")]

\* the catalog after updateWorkflowStatus(id, {isActive: false}) on some statuses
WithInactive(st, slugs) ==
    {[s EXCEPT !.isActive = (s.slug \notin slugs)] : s \in st}

\* the catalog after "reviewing" was made the default and "pending" deleted
NoPendingCatalog ==
    {[s EXCEPT !.isDefault = (s.slug = "reviewing")] :
        s \in {x \in defaultWorkflowStatuses : x.slug # "pending"}}

CatalogChoices ==
    { defaultWorkflowStatuses,
      WithInactive(defaultWorkflowStatuses, {"reviewing"}),
      NoPendingCatalog,
      WithInactive(NoPendingCatalog, {"approved"}) }

\* bookings at 10:00 of day 1, in a status of the catalog (the foreign key)
ExtraShapes(st) ==
    [eventType : EventTypeIds, durationMinutes : {30},
     statusId : {s.id : s \in st} \ {"s4"}]

StoreChoices(st) ==
    { LET n == Len(past)
      IN  past \o [i \in 1..Len(extra) |->
                     StoredBooking(n + i, extra[i].eventType, T0,
                                   extra[i].durationMinutes, extra[i].statusId)] :
        past \in {<<>>, PastBookings},
        extra \in UNION {[1..k -> ExtraShapes(st)] : k \in 0..MaxExtra} }

InitAvail ==
    /\ statuses \in CatalogChoices
    /\ bookings \in StoreChoices(statuses)
    /\ activityLogs = <<>>
    /\ avail = [c \in Clients |-> NoAnswer]
    /\ resp = [c \in Clients |-> 0]
    /\ last = NoRequest
    /\ inFlight = NoCalls

\* the slots asked about: half an hour around the bookings of 10:00, and an
\* hour from 09:30
Candidates ==
    ( { At(1, 7, 30), At(1, 9, 0), At(1, 9, 30), At(1, 10, 0), At(1, 10, 29),
        At(1, 10, 30), At(1, 10, 59), At(1, 11, 0), At(1, 12, 30) }
      \X {30} \X EventTypeIds )
    \cup ( {At(1, 9, 30)} \X {60} \X EventTypeIds )

\* one question per store: the check is a function of the store
CheckSlot ==
    /\ avail["c1"].st = "none"
    /\ \E cand \in Candidates : CheckAvailability("c1", cand[1], cand[2], cand[3])

NextAvail == CheckSlot

SpecAvail == InitAvail /\ [][NextAvail]_vars

----------------------------------------------------------------------------
(* Vocabulary of the claims *)

\* the padded interval of a stored booking: [start - bufferBefore, end + bufferAfter)
PaddedStart(b) == b.startAt - EventTypes[b.eventType].bufferBeforeMinutes
PaddedEnd(b) == BookingEnd(b) + EventTypes[b.eventType].bufferAfterMinutes

\* a booking in an active status other than "pending"
Relevant(b) ==
    \E s \in statuses : s.id = b.statusId /\ s.isActive /\ s.slug # "pending"

IsPending(b) == \E s \in statuses : s.id = b.statusId /\ s.slug = "pending"

RelevantRows == {i \in DOMAIN bookings : Relevant(bookings[i])}

Answered(c) == avail[c].st = "done"

\* the candidate of an answer, literal and padded with its own event type's buffers
CandStart(a) == a.startTime
CandEnd(a) == a.startTime + a.durationMinutes
CandPaddedStart(a) == a.startTime - EventTypes[a.eventTypeId].bufferBeforeMinutes
CandPaddedEnd(a) == CandEnd(a) + EventTypes[a.eventTypeId].bufferAfterMinutes

\* no truncation can occur: the store holds no more rows than the query returns
SmallStore == Len(bookings) <= ScanLimit

Max(x, y) == IF x >= y THEN x ELSE y

----------------------------------------------------------------------------
(* Claims on the availability check, under SpecAvail *)

\* C1: the check answers false if and only if some relevant booking (active
\* status, not pending) overlaps the candidate as half-open ranges, for a
\* store of any size.
C1_UnavailableIffOverlap ==
    \A c \in Clients :
        Answered(c) =>
            ( (avail[c].available = FALSE)
              <=> \E i \in RelevantRows :
                     /\ bookings[i].startAt < CandEnd(avail[c])
                     /\ BookingEnd(bookings[i]) > CandStart(avail[c]) )

\* C2: a candidate that overlaps the padded interval [T-B1, T+D+B2) of a
\* relevant booking is answered unavailable (stated for stores small enough
\* that every row is scanned).
C2_PaddedIntervalBlocks ==
    \A c \in Clients :
        (Answered(c) /\ SmallStore) =>
            \A i \in RelevantRows :
                ( /\ PaddedStart(bookings[i]) < CandEnd(avail[c])
                  /\ PaddedEnd(bookings[i]) > CandStart(avail[c]) )
                => avail[c].available = FALSE

\* C3: when the candidate placed exactly at a relevant booking's padded end is
\* available, the same candidate one minute earlier is answered unavailable
\* (stated for stores small enough that every row is scanned).
C3_OneMinuteEarlierBlocked ==
    \A c \in Clients :
        (Answered(c) /\ SmallStore) =>
            \A i \in RelevantRows :
                ( /\ CandStart(avail[c]) = PaddedEnd(bookings[i]) - 1
                  /\ AvailabilityOutcomes(bookings, statuses, PaddedEnd(bookings[i]),
                                          avail[c].durationMinutes) = {TRUE} )
                => avail[c].available = FALSE

\* the candidate's (padded) start is exactly the booking's (padded) end, or its
\* (padded) end exactly the booking's (padded) start
Touches(b, a) ==
    \/ {CandStart(a), CandPaddedStart(a)} \cap {BookingEnd(b), PaddedEnd(b)} # {}
    \/ {CandEnd(a), CandPaddedEnd(a)} \cap {b.startAt, PaddedStart(b)} # {}

\* the booking is not near the candidate: apart from it, not even adjacent
Apart(b, a) == BookingEnd(b) < CandStart(a) \/ b.startAt > CandEnd(a)

\* C4: a relevant booking whose (padded) end is exactly the candidate's
\* (padded) start, or whose (padded) start is exactly the candidate's (padded)
\* end, is not a conflict; when every other relevant booking is apart from the
\* candidate the answer is true.
C4_BoundaryIsNoConflict ==
    \A c \in Clients :
        Answered(c) =>
            /\ \A i \in avail[c].rows :
                  Touches(bookings[i], avail[c])
                  => ~Overlaps(bookings[i], CandStart(avail[c]), CandEnd(avail[c]))
            /\ ( /\ \E i \in RelevantRows : Touches(bookings[i], avail[c])
                 /\ \A i \in RelevantRows :
                       Touches(bookings[i], avail[c]) \/ Apart(bookings[i], avail[c]) )
               => avail[c].available = TRUE

\* C4 witness: an answer "available" for a candidate that starts exactly when
\* a relevant booking ends, and one that ends exactly when it starts.
C4_Witness ==
    /\ Answered("c1") /\ avail["c1"].available = TRUE
    /\ \E i \in RelevantRows :
          \/ CandStart(avail["c1"]) = BookingEnd(bookings[i])
          \/ CandEnd(avail["c1"]) = bookings[i].startAt
    /\ \E i \in RelevantRows : CandStart(avail["c1"]) = BookingEnd(bookings[i])

\* C5: event types A (120 before, 0 after) and B (0 before, 30 after) back to
\* back, the stored booking being the only relevant one: the answer is
\* unavailable exactly when the gap is less than the larger of the earlier
\* booking's buffer-after and the later one's buffer-before, in both orders.
C5_AsymmetricBuffers ==
    \A c \in Clients :
        Answered(c) =>
            \A i \in RelevantRows :
                LET b == bookings[i]
                    a == avail[c]
                    after == CandStart(a) >= BookingEnd(b)
                    gap == IF after THEN CandStart(a) - BookingEnd(b)
                           ELSE b.startAt - CandEnd(a)
                    required ==
                        IF after
                        THEN Max(EventTypes[b.eventType].bufferAfterMinutes,
                                 EventTypes[a.eventTypeId].bufferBeforeMinutes)
                        ELSE Max(EventTypes[a.eventTypeId].bufferAfterMinutes,
                                 EventTypes[b.eventType].bufferBeforeMinutes)
                IN  ( /\ RelevantRows = {i}
                      /\ {b.eventType, a.eventTypeId} = {"type_a", "type_b"}
                      /\ (after \/ CandEnd(a) <= b.startAt) )
                    => ((a.available = FALSE) <=> (gap < required))

\* the store without its pending bookings
WithoutPending(bk) == SelectSeq(bk, LAMBDA b : ~IsPending(b))

\* C6: a pending booking is never among the rows the check scans, and the
\* answers the check can give are those it gives on the store with every
\* pending booking removed.
C6_PendingNeverBlocks ==
    \A c \in Clients :
        Answered(c) =>
            /\ \A i \in avail[c].rows : ~IsPending(bookings[i])
            /\ avail[c].available \in
                  AvailabilityOutcomes(WithoutPending(bookings), statuses,
                                       avail[c].startTime, avail[c].durationMinutes)
            /\ AvailabilityOutcomes(bookings, statuses,
                                    avail[c].startTime, avail[c].durationMinutes)
               = AvailabilityOutcomes(WithoutPending(bookings), statuses,
                                      avail[c].startTime, avail[c].durationMinutes)

\* C6 witness: an answer "available" although a pending booking overlaps the
\* candidate.
C6_Witness ==
    /\ Answered("c1") /\ avail["c1"].available = TRUE
    /\ \E i \in DOMAIN bookings :
          /\ IsPending(bookings[i])
          /\ bookings[i].startAt < CandEnd(avail["c1"])
          /\ BookingEnd(bookings[i]) > CandStart(avail["c1"])

\* C7: the check considers exactly the bookings in an active status other
\* than "pending" (those that start after the candidate ends cannot conflict
\* and are not fetched), also when the catalog has no "pending" status.
C7_ScansExactlyRelevant ==
    \A c \in Clients :
        Answered(c) =>
            avail[c].rows =
                {i \in RelevantRows : bookings[i].startAt <= CandEnd(avail[c])}

\* C10: for a given store and candidate the check has one answer, whichever
\* rows the store happens to return first.
C10_OneAnswerPerStore ==
    \A c \in Clients :
        Answered(c) =>
            AvailabilityOutcomes(bookings, statuses, avail[c].startTime,
                                 avail[c].durationMinutes) = {avail[c].available}

----------------------------------------------------------------------------
(* Claims on booking creation, under Spec *)

\* C8: nothing detects or reports an overlap at creation: no POST of the
\* public form is answered with a conflict or a failure, and every request
\* answered 201 has its booking in the store, whatever the availability check
\* answered before and whatever was inserted in between.
C8_RaceUndetected ==
    \A c \in Clients :
        /\ resp[c] \in {0, 201, 400}
        /\ resp[c] = 201 => \E i \in DOMAIN bookings : bookings[i].contactName = c

\* C8 witness: two clients were both answered "available" for overlapping
\* slots before either booking was inserted, both then posted, and the store
\* holds the two overlapping bookings.
C8_Witness ==
    \E i, j \in DOMAIN bookings :
        /\ i < j
        /\ bookings[i].contactName = "c1" /\ bookings[j].contactName = "c2"
        /\ bookings[i].startAt < BookingEnd(bookings[j])
        /\ BookingEnd(bookings[i]) > bookings[j].startAt
        /\ resp["c1"] = 201 /\ resp["c2"] = 201
        /\ Answered("c1") /\ avail["c1"].available /\ avail["c1"].seen < i
        /\ avail["c1"].startTime = bookings[i].startAt
        /\ avail["c1"].durationMinutes = bookings[i].durationMinutes
        /\ Answered("c2") /\ avail["c2"].available /\ avail["c2"].seen < i
        /\ avail["c2"].startTime = bookings[j].startAt
        /\ avail["c2"].durationMinutes = bookings[j].durationMinutes

\* C9: a booking request of the public form is not stored when the
\* availability check for its start and duration answers false on the store
\* it is submitted to.
C9_UnavailableNotStored ==
    [][ Len(bookings') > Len(bookings)
        => LET b == bookings'[Len(bookings')]
           IN  AvailabilityOutcomes(bookings, statuses, b.startAt, b.durationMinutes)
               # {FALSE} ]_vars

----------------------------------------------------------------------------
(* Workflow status catalog: create, update, delete *)

\* rows of workflow_statuses in one behaviour
MaxStatuses == 5

\* ids randomUUID() gives to new rows: one that no row has
StatusIdPool == {"s5", "s6", "s7", "s8", "s9", "s10"}

NewStatusId(st) == CHOOSE id \in StatusIdPool : \A s \in st : s.id # id

\* update workflow_statuses set is_default = false where is_default = true
ClearDefaults(st) == {[s EXCEPT !.isDefault = FALSE] : s \in st}

\* createWorkflowStatus(statusData): the catalog it leaves and whether the
\* insert succeeded.  The defaults are cleared in a statement of its own before
\* the insert; slug is UNIQUE, so an insert with a slug in use throws.
createWorkflowStatus(st, statusData) ==
    LET cleared == IF statusData.isDefault THEN ClearDefaults(st) ELSE st
        row == [id |-> NewStatusId(st), slug |-> statusData.slug,
                name |-> statusData.name, isDefault |-> statusData.isDefault,
                isFinal |-> statusData.isFinal, isActive |-> statusData.isActive]
    IN  IF \E s \in st : s.slug = statusData.slug
        THEN [statuses |-> cleared, ok |-> FALSE]
        ELSE [statuses |-> cleared \cup {row}, ok |-> TRUE]

\* .set({...updates}): the fields the request carries (updates.fields) replace
\* the row's, the others stay
ApplyStatusUpdates(s, updates) ==
    [s EXCEPT
       !.isDefault = IF "isDefault" \in updates.fields THEN updates.isDefault ELSE @,
       !.isActive = IF "isActive" \in updates.fields THEN updates.isActive ELSE @]

\* updateWorkflowStatus(id, updates): the catalog it leaves and whether a row
\* was updated (undefined otherwise).  if (updates.isDefault) clears the
\* defaults first, in a statement of its own.
updateWorkflowStatus(st, id, updates) ==
    LET cleared == IF "isDefault" \in updates.fields /\ updates.isDefault
                   THEN ClearDefaults(st) ELSE st
    IN  [statuses |-> {IF s.id = id THEN ApplyStatusUpdates(s, updates) ELSE s :
                          s \in cleared},
         ok |-> \E s \in st : s.id = id]

\* deleteWorkflowStatus without the two checks that precede the delete
deleteWorkflowStatusUnchecked(st, bk, id) ==
    [statuses |-> {s \in st : s.id # id},
     outcome |-> IF \E s \in st : s.id = id THEN "deleted" ELSE "not_found"]

\* deleteWorkflowStatus(id): throws when a booking uses the status or when the
\* status is the default; otherwise deletes and returns rowCount > 0
deleteWorkflowStatus(st, bk, id) ==
    IF \E i \in DOMAIN bk : bk[i].statusId = id
    THEN [statuses |-> st, outcome |-> "error_in_use"]
    ELSE IF getWorkflowStatus(st, id).isDefault
    THEN [statuses |-> st, outcome |-> "error_default"]
    ELSE [statuses |-> {s \in st : s.id # id},
          outcome |-> IF \E s \in st : s.id = id THEN "deleted" ELSE "not_found"]

\* POST /api/admin/workflow-statuses by an administrator, body valid
PostWorkflowStatus(statusData) ==
    /\ Cardinality(statuses) < MaxStatuses
    /\ LET r == createWorkflowStatus(statuses, statusData)
       IN  /\ statuses' = r.statuses
           /\ last' = [op |-> "create_status", slug |-> statusData.slug,
                       code |-> IF r.ok THEN 201 ELSE 500]
    /\ UNCHANGED <<bookings, activityLogs, avail, resp, inFlight>>

\* PUT /api/admin/workflow-statuses/:id by an administrator, body valid
PutWorkflowStatus(id, updates) ==
    /\ LET r == updateWorkflowStatus(statuses, id, updates)
       IN  /\ statuses' = r.statuses
           /\ last' = [op |-> "update_status", id |-> id, updates |-> updates,
                       code |-> IF r.ok THEN 200 ELSE 404]
    /\ UNCHANGED <<bookings, activityLogs, avail, resp, inFlight>>

\* DELETE /api/admin/workflow-statuses/:id by an administrator: 400 with the
\* message of the error thrown, 404 when no row was deleted
DeleteWorkflowStatus(id) ==
    /\ LET r == deleteWorkflowStatus(statuses, bookings, id)
       IN  /\ statuses' = r.statuses
           /\ last' = [op |-> "delete_status", id |-> id, outcome |-> r.outcome,
                       code |-> CASE r.outcome = "deleted" -> 200
                                  [] r.outcome = "not_found" -> 404
                                  [] OTHER -> 400]
    /\ UNCHANGED <<bookings, activityLogs, avail, resp, inFlight>>

\* stores the catalog operations meet: empty, or one booking of the public
\* form, still in the default status or moved on by an administrator
CatalogStores ==
    {<<>>} \cup {<<StoredBooking(1, "type_b", T0, 30, sid)>> : sid \in {"s1", "s2"}}

InitCatalog ==
    /\ statuses = defaultWorkflowStatuses
    /\ bookings \in CatalogStores
    /\ activityLogs = <<>>
    /\ avail = [c \in Clients |-> NoAnswer]
    /\ resp = [c \in Clients |-> 0]
    /\ last = NoRequest
    /\ inFlight = NoCalls

\* a new status "rejected", as default or not; a second "pending"
NewStatuses ==
    [slug : {"rejected", "pending"}, name : {"Avvisad"}, isDefault : BOOLEAN,
     isFinal : {FALSE}, isActive : {TRUE}]

\* changes of the default flag, of the active flag, or of another field
StatusChanges ==
    { [fields |-> {"isDefault"}, isDefault |-> TRUE, isActive |-> TRUE],
      [fields |-> {"isDefault"}, isDefault |-> FALSE, isActive |-> TRUE],
      [fields |-> {"isActive"}, isDefault |-> FALSE, isActive |-> FALSE],
      [fields |-> {}, isDefault |-> FALSE, isActive |-> TRUE] }

\* ids an administrator may name: rows of the catalog, or a row already deleted
StatusIdInputs == {"s1", "s2", "s3", "s5"}

CreateStatus == \E statusData \in NewStatuses : PostWorkflowStatus(statusData)

UpdateStatus ==
    \E id \in StatusIdInputs, updates \in StatusChanges : PutWorkflowStatus(id, updates)

DeleteStatus == \E id \in StatusIdInputs : DeleteWorkflowStatus(id)

NextCatalog == CreateStatus \/ UpdateStatus \/ DeleteStatus

SpecCatalog == InitCatalog /\ [][NextCatalog]_vars

----------------------------------------------------------------------------
(* Claims on the workflow status catalog, under SpecCatalog *)

\* C11: after any sequence of createWorkflowStatus, updateWorkflowStatus and
\* deleteWorkflowStatus calls from the seeded catalog exactly one status has
\* isDefault = true, and after isDefault = true was set on a status that status
\* is the only default.
C11_ExactlyOneDefault ==
    /\ Cardinality(DefaultStatusRows(statuses)) = 1
    /\ ( /\ last.op = "update_status" /\ last.code = 200
         /\ "isDefault" \in last.updates.fields /\ last.updates.isDefault )
       => DefaultStatusRows(statuses) = {getWorkflowStatus(statuses, last.id)}

----------------------------------------------------------------------------
(* Admin workflow: status, assignee and notes of a booking, and its history *)

\* rows of activity_logs in one behaviour of the admin workflow
MaxHistory == 5

\* the administrator who acts, and the administrators a booking is assigned to
AdminUser == [id |-> "u1", name |-> "Admin One"]
AdminIds == {"u1"}

\* updateEventBooking(id, updates, userId, userName) on a stored booking: the
\* store and the log it leaves
updateEventBooking(bk, al, st, id, updates, userId, userName) ==
    [bookings |-> [bk EXCEPT ![id] = ApplyUpdates(bk[id], updates)],
     activityLogs |-> al \o UpdateLogs(bk[id], updates, st, userId, userName)]

\* getActivityLogsForBooking with the order by timestamp ascending
getActivityLogsAscending(al, bookingId) ==
    SelectSeq(al, LAMBDA e : e.bookingId = bookingId)

\* select ... where booking_id = :id order by timestamp desc.  Entries are
\* stamped when inserted, so activityLogs is in ascending timestamp order.
getActivityLogsForBooking(al, bookingId) ==
    LET own == SelectSeq(al, LAMBDA e : e.bookingId = bookingId)
    IN  [k \in 1..Len(own) |-> own[Len(own) + 1 - k]]

\* PUT /api/bookings/:id by an administrator, for an :id that passed the
\* route's check and a body that passed updateEventBookingSchema.  404 when no
\* booking has the id; a statusId that names no status makes the update throw
\* (foreign key), 500.
PutBooking(id, updates) ==
    /\ IF id \notin DOMAIN bookings
       THEN /\ last' = [op |-> "put_booking", id |-> id, code |-> 404]
            /\ UNCHANGED <<bookings, activityLogs, inFlight>>
       ELSE IF updates.statusId # Undefined
               /\ getWorkflowStatus(statuses, updates.statusId) = NoStatus
       THEN /\ last' = [op |-> "put_booking", id |-> id, code |-> 500]
            /\ UNCHANGED <<bookings, activityLogs, inFlight>>
       ELSE LET r == updateEventBooking(bookings, activityLogs, statuses, id, updates,
                                        AdminUser.id, AdminUser.name)
            IN  /\ Len(r.activityLogs) <= MaxHistory
                /\ bookings' = r.bookings
                /\ activityLogs' = r.activityLogs
                /\ last' = [op |-> "put_booking", id |-> id, code |-> 200]
    /\ UNCHANGED <<statuses, avail, resp, inFlight>>

\* PATCH /api/admin/bookings/:id/status by an administrator, for an :id that
\* passed the route's check: updateEventBooking, then the route's own
\* createActivityLog when the status differs from the one the booking had
PatchBookingStatus(id, statusId) ==
    /\ IF id \notin DOMAIN bookings
       THEN /\ last' = [op |-> "patch_status", id |-> id, code |-> 404]
            /\ UNCHANGED <<bookings, activityLogs, inFlight>>
       ELSE IF getWorkflowStatus(statuses, statusId) = NoStatus
       THEN /\ last' = [op |-> "patch_status", id |-> id, code |-> 500]
            /\ UNCHANGED <<bookings, activityLogs, inFlight>>
       ELSE LET existingBooking == bookings[id]
                r == updateEventBooking(bookings, activityLogs, statuses, id,
                                        [statusId |-> statusId, assignedTo |-> Undefined,
                                         additionalNotes |-> Undefined],
                                        AdminUser.id, AdminUser.name)
                routeLog ==
                    IF statusId # existingBooking.statusId
                    THEN <<LogEntry(id, "status_changed",
                                    <<StatusName(statuses, existingBooking.statusId),
                                      StatusName(statuses, statusId), "en">>,
                                    AdminUser.id, AdminUser.name)>>
                    ELSE <<>>
            IN  /\ Len(r.activityLogs) + Len(routeLog) <= MaxHistory
                /\ bookings' = r.bookings
                /\ activityLogs' = r.activityLogs \o routeLog
                /\ last' = [op |-> "patch_status", id |-> id, code |-> 200]
    /\ UNCHANGED <<statuses, avail, resp, inFlight>>

\* PATCH /api/admin/bookings/:id/assign by an administrator, for an :id that
\* passed the route's check and an assignee who is an administrator:
\* updateEventBooking without a user (userId null, userName "System"), then the
\* route's own createActivityLog when the assignee differs
PatchBookingAssign(id, assignedTo) ==
    /\ IF id \notin DOMAIN bookings
       THEN /\ last' = [op |-> "patch_assign", id |-> id, code |-> 404]
            /\ UNCHANGED <<bookings, activityLogs, inFlight>>
       ELSE IF assignedTo \notin AdminIds
       THEN /\ last' = [op |-> "patch_assign", id |-> id, code |-> 400]
            /\ UNCHANGED <<bookings, activityLogs, inFlight>>
       ELSE LET existingBooking == bookings[id]
                r == updateEventBooking(bookings, activityLogs, statuses, id,
                                        [statusId |-> Undefined, assignedTo |-> assignedTo,
                                         additionalNotes |-> Undefined],
                                        None, "System")
                routeLog ==
                    IF assignedTo # existingBooking.assignedTo
                    THEN <<LogEntry(id, "assigned", <<assignedTo, "en">>,
                                    AdminUser.id, AdminUser.name)>>
                    ELSE <<>>
            IN  /\ Len(r.activityLogs) + Len(routeLog) <= MaxHistory
                /\ bookings' = r.bookings
                /\ activityLogs' = r.activityLogs \o routeLog
                /\ last' = [op |-> "patch_assign", id |-> id, code |-> 200]
    /\ UNCHANGED <<statuses, avail, resp, inFlight>>

\* GET /api/bookings/:id/activities by an administrator
GetActivities(bookingId) ==
    /\ last' = [op |-> "activities", bookingId |-> bookingId,
                result |-> getActivityLogsForBooking(activityLogs, bookingId)]
    /\ UNCHANGED <<statuses, bookings, activityLogs, avail, resp, inFlight>>

\* the form a visitor sends in this part: an hour from 10:00 on day 1
WorkflowForm(c) ==
    [eventType |-> "type_b", contactName |-> c, requestedDate |-> 1,
     startTime |-> 600, durationHundredths |-> 100, additionalNotes |-> None]

\* what an administrator changes: to "reviewing" or "approved", to the
\* administrator u1, a note
BookingUpdates ==
    [statusId : {Undefined, "s2", "s3"}, assignedTo : {Undefined, "u1"},
     additionalNotes : {Undefined, "call back"}]

BookingIdInputs == 1..MaxBookings

PostForm == \E c \in Clients : PostBooking(c, WorkflowForm(c))

Put == \E id \in BookingIdInputs, updates \in BookingUpdates : PutBooking(id, updates)

PatchStatus ==
    \E id \in BookingIdInputs, statusId \in {"s2", "s3"} : PatchBookingStatus(id, statusId)

PatchAssign ==
    \E id \in BookingIdInputs, assignedTo \in {"u1", "u9"} :
        PatchBookingAssign(id, assignedTo)

Activities == \E id \in BookingIdInputs : GetActivities(id)

NextWorkflow == PostForm \/ Put \/ PatchStatus \/ PatchAssign \/ Activities

SpecWorkflow == Init /\ [][NextWorkflow]_vars

----------------------------------------------------------------------------
(* Claims on the admin workflow, under SpecWorkflow *)

\* positions of the entries a step appended for a booking, of one kind
AppendedOfKind(old, new, bookingId, kind) ==
    {k \in (Len(old) + 1)..Len(new) :
        new[k].bookingId = bookingId /\ new[k].action = kind}

\* positions of the entries a step appended for a booking
AppendedFor(old, new, bookingId) ==
    {k \in (Len(old) + 1)..Len(new) : new[k].bookingId = bookingId}

\* the log before a step is the beginning of the log after it
IsPrefix(old, new) ==
    Len(old) <= Len(new) /\ \A k \in 1..Len(old) : new[k] = old[k]

C14_ThreeEntriesForThreeFields ==
    [][ \A id \in DOMAIN bookings :
          ( /\ last'.op = "put_booking"
            /\ bookings'[id].statusId # bookings[id].statusId
            /\ bookings'[id].assignedTo # bookings[id].assignedTo
            /\ bookings'[id].additionalNotes # bookings[id].additionalNotes )
          => /\ Len(activityLogs') = Len(activityLogs) + 3
             /\ Cardinality(AppendedFor(activityLogs, activityLogs', id)) = 3
             /\ \A kind \in {"status_changed", "assigned", "notes_added"} :
                   Cardinality(AppendedOfKind(activityLogs, activityLogs', id, kind)) = 1
             /\ IsPrefix(activityLogs, activityLogs') ]_vars

\* C14 witness: the log of a booking created by the form ends with the three
\* entries of one PUT that changed its status, assignee and notes.
C14_Witness ==
    /\ last.op = "put_booking" /\ last.code = 200
    /\ Len(activityLogs) >= 4
    /\ LET n == Len(activityLogs)
       IN  /\ activityLogs[n - 2].action = "status_changed"
           /\ activityLogs[n - 1].action = "assigned"
           /\ activityLogs[n].action = "notes_added"
           /\ {activityLogs[k].bookingId : k \in (n - 2)..n} = {last.id}
           /\ \E k \in 1..(n - 3) :
                 activityLogs[k].action = "created" /\ activityLogs[k].bookingId = last.id

\* C15: no step removes or modifies an entry of the activity log (the log
\* before the step is the beginning of the log after it, so each booking's
\* entries only grow), and the history returned for a booking holds exactly
\* that booking's entries, the latest first.
C15_AppendOnlyLatestFirst ==
    [][ /\ IsPrefix(activityLogs, activityLogs')
        /\ (last'.op = "activities" /\ activityLogs' = activityLogs)
           => LET own == {k \in DOMAIN activityLogs :
                             activityLogs[k].bookingId = last'.bookingId}
                  r == last'.result
              IN  /\ Len(r) = Cardinality(own)
                  /\ \A k \in 1..Len(r) :
                        \E i \in own :
                            /\ Cardinality({j \in own : j > i}) = k - 1
                            /\ r[k] = activityLogs[i] ]_vars

\* C15 witness: a history of at least two entries was returned, the log
\* holding entries of another booking as well.
C15_Witness ==
    /\ last.op = "activities"
    /\ Len(last.result) >= 2
    /\ last.result[1] # last.result[2]
    /\ \E k \in DOMAIN activityLogs : activityLogs[k].bookingId # last.bookingId

----------------------------------------------------------------------------
(* Blocked slots of the public calendar *)

\* Europe/Stockholm in the season of the events (CET): minutes ahead of UTC
StockholmOffset == 60

\* Intl.DateTimeFormat('sv-SE', {timeZone, year, month, day}): the local day
FormatDate(t) == (t + StockholmOffset) \div 1440

\* the clock time in UTC
FormatTimeUTC(t) == <<(t % 1440) \div 60, t % 60>>

\* Intl.DateTimeFormat('sv-SE', {timeZone, hour, minute}): local HH:MM
FormatTime(t) ==
    <<((t + StockholmOffset) % 1440) \div 60, (t + StockholmOffset) % 60>>

\* the slot with the visitor's name in it
BlockedSlotWithContact(b, statusSlug) ==
    [id |-> b.id, date |-> FormatDate(b.startAt), startTime |-> FormatTime(b.startAt),
     endTime |-> FormatTime(BookingEnd(b)), eventType |-> b.contactName,
     statusSlug |-> statusSlug]

\* approvedBookings.map(booking => ...)
BlockedSlot(b, statusSlug) ==
    [id |-> b.id, date |-> FormatDate(b.startAt), startTime |-> FormatTime(b.startAt),
     endTime |-> FormatTime(BookingEnd(b)), eventType |-> b.eventType,
     statusSlug |-> statusSlug]

\* the rows of every booking, whatever its status
ApprovedRowsAnyStatus(bk, st, approvedStatus) == DOMAIN bk

\* ... inner join workflow_statuses where status_id = :approvedStatus.id
ApprovedRows(bk, st, approvedStatus) ==
    {i \in DOMAIN bk :
        /\ \E s \in st : s.id = bk[i].statusId
        /\ bk[i].statusId = approvedStatus.id}

\* order by start_at: rows with equal start_at come in any order
OrderedByStartAt(rows, bk) ==
    {o \in [1..Cardinality(rows) -> rows] :
        /\ \A j, k \in DOMAIN o : j # k => o[j] # o[k]
        /\ \A j, k \in DOMAIN o : j < k => bk[o[j]].startAt <= bk[o[k]].startAt}

\* getBlockedSlotsForCalendar that fails when there is no "approved" status
getBlockedSlotsStrict(bk, st) ==
    LET approvedStatus == getWorkflowStatusBySlug(st, "approved")
    IN  IF approvedStatus = NoStatus
        THEN {[error |-> TRUE, slots |-> <<>>]}
        ELSE {[error |-> FALSE,
               slots |-> [k \in DOMAIN o |-> BlockedSlot(bk[o[k]], approvedStatus.slug)]] :
                 o \in OrderedByStartAt(ApprovedRows(bk, st, approvedStatus), bk)}

\* getBlockedSlotsForCalendar(): every result it can give on this store
getBlockedSlotsForCalendar(bk, st) ==
    LET approvedStatus == getWorkflowStatusBySlug(st, "approved")
    IN  IF approvedStatus = NoStatus
        THEN {[error |-> FALSE, slots |-> <<>>]}
        ELSE {[error |-> FALSE,
               slots |-> [k \in DOMAIN o |-> BlockedSlot(bk[o[k]], approvedStatus.slug)]] :
                 o \in OrderedByStartAt(ApprovedRows(bk, st, approvedStatus), bk)}

\* GET /api/calendar/blocked-slots: 500 when the storage method throws
GetBlockedSlots ==
    /\ \E r \in getBlockedSlotsForCalendar(bookings, statuses) :
          last' = [op |-> "blocked_slots", code |-> IF r.error THEN 500 ELSE 200,
                   blockedSlots |-> r.slots]
    /\ UNCHANGED <<statuses, bookings, activityLogs, avail, resp, inFlight>>

\* the seeded catalog, and the catalog after "approved" was deleted
CalendarCatalogs ==
    { defaultWorkflowStatuses,
      {s \in defaultWorkflowStatuses : s.slug # "approved"},
      NoPendingCatalog }

\* bookings of either event type at 10:00, at 22:45 (a quarter to midnight in
\* Stockholm) or at 23:15 of day 1, half an hour long, in a status of the catalog
CalendarShapes(st) ==
    [eventType : EventTypeIds, startAt : {T0, At(1, 22, 45), At(1, 23, 15)},
     statusId : {s.id : s \in st}]

CalendarStores(st) ==
    { [i \in 1..Len(shapes) |->
          StoredBooking(i, shapes[i].eventType, shapes[i].startAt, 30,
                        shapes[i].statusId)] :
        shapes \in UNION {[1..k -> CalendarShapes(st)] : k \in 0..MaxExtra} }

InitCalendar ==
    /\ statuses \in CalendarCatalogs
    /\ bookings \in CalendarStores(statuses)
    /\ activityLogs = <<>>
    /\ avail = [c \in Clients |-> NoAnswer]
    /\ resp = [c \in Clients |-> 0]
    /\ last = NoRequest
    /\ inFlight = NoCalls

\* one request per store: the projection is a function of the store
BlockedSlots ==
    /\ last.op = "none"
    /\ GetBlockedSlots

NextCalendar == BlockedSlots

SpecCalendar == InitCalendar /\ [][NextCalendar]_vars

----------------------------------------------------------------------------
(* Claims on the blocked slots, under SpecCalendar *)

Projected == last.op = "blocked_slots"

\* bookings whose status is the one slugged "approved"
ApprovedBookings ==
    {i \in DOMAIN bookings :
        \E s \in statuses : s.id = bookings[i].statusId /\ s.slug = "approved"}

\* C16: the projection holds exactly the bookings whose status is slugged
\* "approved": each of them once, and no booking in any other status.
C16_ExactlyApproved ==
    Projected =>
        /\ last.code = 200
        /\ Len(last.blockedSlots) = Cardinality(ApprovedBookings)
        /\ {last.blockedSlots[k].id : k \in DOMAIN last.blockedSlots}
           = {bookings[i].id : i \in ApprovedBookings}
        /\ \A k \in DOMAIN last.blockedSlots : last.blockedSlots[k].statusSlug = "approved"

\* C16 witness: a projection of a store that holds an approved booking and
\* bookings in other statuses.
C16_Witness ==
    /\ Projected
    /\ ApprovedBookings # {}
    /\ Len(last.blockedSlots) >= 1
    /\ \E i \in DOMAIN bookings : i \notin ApprovedBookings

\* C17: each projected window runs from the booking's start minus its event
\* type's buffer-before to its start plus duration plus its event type's
\* buffer-after.
C17_WindowIsPadded ==
    Projected =>
        \A k \in DOMAIN last.blockedSlots :
            \E i \in ApprovedBookings :
                /\ bookings[i].id = last.blockedSlots[k].id
                /\ last.blockedSlots[k].date = FormatDate(PaddedStart(bookings[i]))
                /\ last.blockedSlots[k].startTime = FormatTime(PaddedStart(bookings[i]))
                /\ last.blockedSlots[k].endTime = FormatTime(PaddedEnd(bookings[i]))

\* the stores that differ from bk at most in contact name, notes and assignee
ContactVariants(bk) ==
    { [i \in DOMAIN bk |->
          [bk[i] EXCEPT !.contactName = v[i].contactName,
                        !.additionalNotes = v[i].additionalNotes,
                        !.assignedTo = v[i].assignedTo]] :
        v \in [DOMAIN bk -> [contactName : {"stored", "Anna"},
                             additionalNotes : {None, "allergy"},
                             assignedTo : {None, "u1"}]] }

\* C18: a slot has only an id, a date, a start and end time, an event type and
\* a status slug, and the projection is the same on every store that differs
\* only in contact names, notes or assignees.
C18_NoContactInformation ==
    Projected =>
        /\ \A k \in DOMAIN last.blockedSlots :
              DOMAIN last.blockedSlots[k]
              = {"id", "date", "startTime", "endTime", "eventType", "statusSlug"}
        /\ \A other \in ContactVariants(bookings) :
              /\ getBlockedSlotsForCalendar(other, statuses)
                 = getBlockedSlotsForCalendar(bookings, statuses)
              /\ [error |-> FALSE, slots |-> last.blockedSlots]
                 \in getBlockedSlotsForCalendar(other, statuses)

\* C18 witness: a projection with a slot in it.
C18_Witness ==
    /\ Projected
    /\ Len(last.blockedSlots) = Len(bookings)
    /\ Len(bookings) >= 1
    /\ Cardinality(ContactVariants(bookings)) > 1

\* C19: with no status slugged "approved" in the catalog the projection is the
\* empty sequence and the request succeeds, whatever is stored.
C19_NoApprovedStatusEmpty ==
    (Projected /\ getWorkflowStatusBySlug(statuses, "approved") = NoStatus) =>
        /\ last.code = 200
        /\ last.blockedSlots = <<>>

\* C19 witness: a projection of a non-empty store under a catalog without
\* "approved".
C19_Witness ==
    /\ Projected
    /\ \A s \in statuses : s.slug # "approved"
    /\ Len(bookings) >= 1
    /\ last.blockedSlots = <<>>

----------------------------------------------------------------------------
(* Claim on the deletion of a workflow status, under SpecCatalog *)

\* C20: deleting a status that a booking references, or that is the default,
\* fails with an error and leaves the catalog and the bookings as they were;
\* a delete removes just the named status, and only when it is unreferenced
\* and not the default.
C20_DeleteGuarded ==
    [][ last'.op = "delete_status"
        => LET id == last'.id
               referenced == \E i \in DOMAIN bookings : bookings[i].statusId = id
               isDefault == \E s \in statuses : s.id = id /\ s.isDefault
               exists == \E s \in statuses : s.id = id
           IN  /\ bookings' = bookings
               /\ (referenced \/ isDefault)
                  => last'.code = 400 /\ statuses' = statuses
               /\ ~(referenced \/ isDefault)
                  => /\ statuses' = {s \in statuses : s.id # id}
                     /\ last'.code = IF exists THEN 200 ELSE 404 ]_vars

\* C20 witness: the delete of a status that a booking references, and that is
\* not the default, was refused.
C20_Witness ==
    /\ last.op = "delete_status" /\ last.code = 400
    /\ last.outcome = "error_in_use"
    /\ \E s \in statuses : s.id = last.id /\ ~s.isDefault
    /\ \E i \in DOMAIN bookings : bookings[i].statusId = last.id

----------------------------------------------------------------------------
(* Creation of bookings: the public form with a catalog that changes, and the
   storage method called directly *)

\* eventBookingFormSchema.parse(req.body): the fields of the schema; keys the
\* schema does not name (a statusId, say) are dropped
ParseForm(body) ==
    [eventType |-> body.eventType, contactName |-> body.contactName,
     requestedDate |-> body.requestedDate, startTime |-> body.startTime,
     durationHundredths |-> body.durationHundredths,
     additionalNotes |-> body.additionalNotes]

\* POST /api/bookings when a statement may fail: logWrite tells whether the
\* insert into activity_logs succeeds ("ok") or throws.  createEventBookingFromForm
\* and createActivityLog are two statements, not one transaction.
PostBookingIO(c, body, logWrite) ==
    /\ Len(bookings) < MaxBookings
    /\ LET form == ParseForm(body)
       IN  IF ~ValidForm(form)
           THEN /\ resp' = [resp EXCEPT ![c] = 400]
                /\ UNCHANGED <<bookings, activityLogs>>
           ELSE IF DefaultStatusRows(statuses) = {}
           THEN /\ resp' = [resp EXCEPT ![c] = 500]
                /\ UNCHANGED <<bookings, activityLogs>>
           ELSE \E defaultStatus \in DefaultStatusRows(statuses) :
                LET id == Len(bookings) + 1
                IN  /\ bookings' = createEventBooking(bookings,
                                       NewBooking(id, form, defaultStatus.id))
                    /\ IF logWrite = "ok"
                       THEN /\ activityLogs' = Append(activityLogs, CreatedLog(id))
                            /\ resp' = [resp EXCEPT ![c] = 201]
                       ELSE /\ activityLogs' = activityLogs
                            /\ resp' = [resp EXCEPT ![c] = 500]
    /\ UNCHANGED <<statuses, avail, last, inFlight>>

\* let statusId = bookingData.statusId; if (!statusId) statusId = default.id
\* (getDefaultWorkflowStatus throws when there is no default: no id at all)
ResolveStatusId(st, statusId) ==
    IF statusId = None THEN {s.id : s \in DefaultStatusRows(st)} ELSE {statusId}

\* storage.createEventBooking(bookingData) called directly: no form, no log
CreateEventBookingDirect(bookingData) ==
    /\ Len(bookings) < MaxBookings
    /\ IF ResolveStatusId(statuses, bookingData.statusId) = {}
       THEN /\ last' = [op |-> "create_booking", statusId |-> bookingData.statusId,
                        ok |-> FALSE]
            /\ UNCHANGED bookings
       ELSE \E statusId \in ResolveStatusId(statuses, bookingData.statusId) :
            /\ bookings' = createEventBooking(bookings,
                               [bookingData EXCEPT !.id = Len(bookings) + 1,
                                                   !.statusId = statusId])
            /\ last' = [op |-> "create_booking", statusId |-> bookingData.statusId,
                        ok |-> TRUE]
    /\ UNCHANGED <<statuses, activityLogs, avail, resp, inFlight>>

\* the hours visitors ask for, in hundredths, under the words they put in the
\* notes: from just below the least the schema accepts to just above the most
NotedHours ==
    [ h049 |-> 49, h050 |-> 50, h051 |-> 51, h125 |-> 125, h799 |-> 799,
      h800 |-> 800, h801 |-> 801 ]

\* request bodies of the public form: the hours asked for are repeated in the
\* notes; the body may carry a statusId of its own
IntakeBodies(c) ==
    { [eventType |-> "type_b", contactName |-> c, requestedDate |-> 1,
       startTime |-> 600, durationHundredths |-> NotedHours[n],
       additionalNotes |-> n, statusId |-> sid] :
        n \in DOMAIN NotedHours, sid \in {None, "s3"} }

\* a booking staff enter directly, with a status of their choice or without
DirectBookings ==
    { [StoredBooking(0, "type_a", T0, 60, sid) EXCEPT !.contactName = "staff"] :
        sid \in {None, "s3"} }

Submit ==
    \E c \in Clients : \E body \in IntakeBodies(c), logWrite \in {"ok", "throws"} :
        PostBookingIO(c, body, logWrite)

CreateDirect == \E bookingData \in DirectBookings : CreateEventBookingDirect(bookingData)

\* an administrator makes "reviewing" the default, or names a row that is gone
MoveDefault ==
    \E id \in {"s2", "s5"} :
        PutWorkflowStatus(id, [fields |-> {"isDefault"}, isDefault |-> TRUE,
                               isActive |-> TRUE])

NextIntake == Submit \/ CreateDirect \/ MoveDefault

SpecIntake == Init /\ [][NextIntake]_vars

----------------------------------------------------------------------------
(* Claims on the creation of bookings, under SpecIntake *)

\* the booking a step stored
Stored(old, new) == new[Len(new)]

\* C21: every booking stored through the public form has the status flagged
\* isDefault when it was created, whatever the request carried; a booking
\* created by createEventBooking without a statusId has it too.
C21_CreatedInDefaultStatus ==
    [][ Len(bookings') > Len(bookings)
        => LET b == Stored(bookings, bookings')
           IN  ( \/ b.contactName \in Clients
                 \/ (last'.op = "create_booking" /\ last'.statusId = None) )
               => \E s \in statuses : s.isDefault /\ s.id = b.statusId ]_vars

\* C21 witness: after the default was moved to "reviewing", a visitor's booking
\* and a booking created without a statusId are both stored as "reviewing".
C21_Witness ==
    /\ \E s \in statuses : s.isDefault /\ s.slug = "reviewing"
    /\ \E i, j \in DOMAIN bookings :
          /\ bookings[i].contactName \in Clients
          /\ bookings[j].contactName = "staff"
          /\ bookings[i].statusId = "s2" /\ bookings[j].statusId = "s2"

\* C25: every booking stored through the public form has the minutes nearest
\* to sixty times the hours asked for (repeated in its notes), the hours being
\* between 0.5 and 8, and every stored booking lasts between 30 and 480 minutes.
C25_DurationWithinBounds ==
    \A i \in DOMAIN bookings :
        /\ bookings[i].durationMinutes >= 30 /\ bookings[i].durationMinutes <= 480
        /\ bookings[i].contactName \in Clients
           => LET h == NotedHours[bookings[i].additionalNotes]
                  d == bookings[i].durationMinutes
              IN  /\ h >= 50 /\ h <= 800
                  /\ 100 * d - 50 <= 60 * h
                  /\ 60 * h < 100 * d + 50

\* C25 witness: bookings of 0.51 hours (30.6 minutes) and of 8 hours are stored.
C25_Witness ==
    /\ \E i \in DOMAIN bookings :
          bookings[i].additionalNotes = "h051" /\ bookings[i].durationMinutes = 31
    /\ \E i \in DOMAIN bookings :
          bookings[i].additionalNotes = "h800" /\ bookings[i].durationMinutes = 480

\* C30: every booking created through POST /api/bookings has exactly one
\* "created" entry, and a request that was answered with an error left no
\* booking behind.
C30_BookingHasCreatedEntry ==
    \A i \in DOMAIN bookings :
        bookings[i].contactName \in Clients
        => Cardinality({k \in DOMAIN activityLogs :
                           /\ activityLogs[k].bookingId = bookings[i].id
                           /\ activityLogs[k].action = "created"}) = 1

----------------------------------------------------------------------------
(* Claim on the transitions of a booking, under Spec *)

\* C22: from whatever status a booking has, final or not, updateEventBooking
\* moves it to any status of the catalog: the update is never refused (while
\* the log has room for its entry) and the booking then has the status asked
\* for.
C22_TransitionsUnconstrained ==
    \A id \in DOMAIN bookings : \A s \in statuses :
        LET updates == [statusId |-> s.id, assignedTo |-> Undefined,
                        additionalNotes |-> Undefined]
            r == updateEventBooking(bookings, activityLogs, statuses, id, updates,
                                    "admin", "Admin")
        IN  /\ r.bookings[id].statusId = s.id
            /\ ApplyUpdates(bookings[id], updates).statusId = s.id
            /\ Len(r.activityLogs) <= MaxLogs
               => ENABLED UpdateEventBooking(id, updates, "admin", "Admin")

\* C22 witness: a booking was moved into the final status "completed" and out
\* of it again.
C22_Witness ==
    \E id \in DOMAIN bookings :
        /\ ~getWorkflowStatus(statuses, bookings[id].statusId).isFinal
        /\ \E j, k \in DOMAIN activityLogs :
              /\ j < k
              /\ activityLogs[j].bookingId = id /\ activityLogs[k].bookingId = id
              /\ activityLogs[j].action = "status_changed"
              /\ activityLogs[k].action = "status_changed"
              /\ activityLogs[j].details[2] = "Slutfort"
              /\ activityLogs[k].details[1] = "Slutfort"
              /\ activityLogs[k].details[2] = StatusName(statuses, bookings[id].statusId)

----------------------------------------------------------------------------
(* GET /api/calendar/availability from the query string on *)

\* req.query.startTime: absent, or a text; new Date(text) is the instant a
\* well-formed text names, Invalid Date otherwise
StartTimeTexts ==
    { [present |-> FALSE, wellFormed |-> FALSE, instant |-> 0],
      [present |-> TRUE,  wellFormed |-> FALSE, instant |-> 0],
      [present |-> TRUE,  wellFormed |-> TRUE,  instant |-> At(1, 10, 0)] }

\* req.query.durationMinutes as text: a sign, leading digits, and what follows
\* them: absent, "", "abc", "0", "-30", "30", "30abc"
DurationTexts ==
    { [present |-> FALSE, sign |-> 1, digits |-> <<>>, rest |-> ""],
      [present |-> TRUE, sign |-> 1,  digits |-> <<>>,     rest |-> ""],
      [present |-> TRUE, sign |-> 1,  digits |-> <<>>,     rest |-> "abc"],
      [present |-> TRUE, sign |-> 1,  digits |-> <<0>>,    rest |-> ""],
      [present |-> TRUE, sign |-> -1, digits |-> <<3, 0>>, rest |-> ""],
      [present |-> TRUE, sign |-> 1,  digits |-> <<3, 0>>, rest |-> ""],
      [present |-> TRUE, sign |-> 1,  digits |-> <<3, 0>>, rest |-> "abc"] }

\* !value: true for undefined and for the empty string
Falsy(text) == ~text.present \/ (text.digits = <<>> /\ text.rest = "")

RECURSIVE DigitsValue(_)
DigitsValue(digits) ==
    IF digits = <<>> THEN 0
    ELSE 10 * DigitsValue(SubSeq(digits, 1, Len(digits) - 1)) + digits[Len(digits)]

\* parseInt(text, 10): the signed leading digits, whatever follows them; NaN
\* when there is no digit
ParseInt(text) ==
    IF text.digits = <<>> THEN [nan |-> TRUE, value |-> 0]
    ELSE [nan |-> FALSE, value |-> text.sign * DigitsValue(text.digits)]

\* the route: 400 when a parameter is missing or does not parse, otherwise the
\* answer of isTimeSlotAvailable; evaluated tells whether the check was called
AvailabilityRequest(c, query) ==
    LET duration == ParseInt(query.durationMinutes)
    IN  /\ IF \/ ~query.startTime.present \/ Falsy(query.durationMinutes)
              \/ ~query.startTime.wellFormed \/ duration.nan
           THEN /\ last' = [op |-> "availability", client |-> c, query |-> query,
                            code |-> 400, evaluated |-> FALSE]
                /\ avail' = avail
           ELSE \E rows \in QueryResults(bookings, statuses,
                                         query.startTime.instant + duration.value) :
                /\ avail' = [avail EXCEPT ![c] =
                      [st |-> "done", startTime |-> query.startTime.instant,
                       durationMinutes |-> duration.value,
                       eventTypeId |-> None, rows |-> rows,
                       available |-> isTimeSlotAvailable(rows, bookings,
                                         query.startTime.instant, duration.value),
                       seen |-> Len(bookings)]]
                /\ last' = [op |-> "availability", client |-> c, query |-> query,
                            code |-> 200, evaluated |-> TRUE]
        /\ UNCHANGED <<statuses, bookings, activityLogs, resp, inFlight>>

Queries == [startTime : StartTimeTexts, durationMinutes : DurationTexts]

InitQuery ==
    /\ statuses = defaultWorkflowStatuses
    /\ bookings \in CatalogStores
    /\ activityLogs = <<>>
    /\ avail = [c \in Clients |-> NoAnswer]
    /\ resp = [c \in Clients |-> 0]
    /\ last = NoRequest
    /\ inFlight = NoCalls

Ask == \E c \in Clients, query \in Queries : AvailabilityRequest(c, query)

NextQuery == Ask

SpecQuery == InitQuery /\ [][NextQuery]_vars

----------------------------------------------------------------------------
(* Claim on the availability endpoint, under SpecQuery *)

\* C23: a request whose start instant is missing or malformed, or whose
\* duration is missing, has no number in it, or is zero or negative, is
\* answered 400 and the availability check is not evaluated for it.
C23_InvalidInputRejected ==
    last.op = "availability" =>
        LET q == last.query
            nonNumeric == ~q.durationMinutes.present \/ q.durationMinutes.digits = <<>>
            nonPositive ==
                q.durationMinutes.sign * DigitsValue(q.durationMinutes.digits) <= 0
        IN  ( \/ ~q.startTime.present \/ ~q.startTime.wellFormed
              \/ nonNumeric \/ nonPositive )
            => last.code = 400 /\ ~last.evaluated

----------------------------------------------------------------------------
(* Further claims on the availability check *)

\* C24 (under Spec): a step in which the availability check was evaluated
\* leaves the bookings, the workflow statuses and the activity log as they
\* were (the event types are fixed).
C24_CheckHasNoSideEffects ==
    [][ avail' # avail
        => /\ bookings' = bookings
           /\ statuses' = statuses
           /\ activityLogs' = activityLogs ]_vars

\* C24 witness: the check was evaluated on a store that holds a booking it
\* had to scan, and the store and the log are as the requests before left them.
C24_Witness ==
    /\ Answered("c2")
    /\ avail["c2"].seen >= 1 /\ avail["c2"].rows # {}
    /\ ~avail["c2"].available
    /\ Len(bookings) = avail["c2"].seen
    /\ Len(activityLogs) = Len(bookings) + 1

\* C28 (under SpecAvail): whenever the check answers false, the store holds a
\* booking in an active status other than "pending" whose [start, start +
\* duration) overlaps the candidate's, both ends strictly.
C28_UnavailableIsSound ==
    \A c \in Clients :
        (Answered(c) /\ avail[c].available = FALSE)
        => \E i \in DOMAIN bookings :
              /\ \E s \in statuses :
                    s.id = bookings[i].statusId /\ s.isActive /\ s.slug # "pending"
              /\ bookings[i].startAt < avail[c].startTime + avail[c].durationMinutes
              /\ bookings[i].startAt + bookings[i].durationMinutes > avail[c].startTime

\* C28 witness: the check answered false on a store of more rows than the
\* query returns, which also holds a booking in an inactive or pending status.
C28_Witness ==
    /\ Answered("c1") /\ avail["c1"].available = FALSE
    /\ Len(bookings) > ScanLimit
    /\ \E i \in DOMAIN bookings : ~Relevant(bookings[i])

----------------------------------------------------------------------------
(* Further claim on the blocked slots, under SpecCalendar *)

\* C26: for an approved booking whose window starts before and ends after
\* midnight in Stockholm, the slot's date is the Stockholm date of the start
\* and its startTime and endTime are the Stockholm clock times of the start
\* and of the end.
C26_AcrossLocalMidnight ==
    Projected =>
        \A k \in DOMAIN last.blockedSlots :
            \A i \in ApprovedBookings :
                LET localStart == bookings[i].startAt + StockholmOffset
                    localEnd == bookings[i].startAt + bookings[i].durationMinutes
                                + StockholmOffset
                    slot == last.blockedSlots[k]
                IN  ( /\ bookings[i].id = slot.id
                      /\ localStart \div 1440 < localEnd \div 1440 )
                    => /\ slot.date = localStart \div 1440
                       /\ slot.startTime[1] * 60 + slot.startTime[2] = localStart % 1440
                       /\ slot.endTime[1] * 60 + slot.endTime[2] = localEnd % 1440
                       /\ slot.startTime[2] < 60 /\ slot.endTime[2] < 60

\* C26 witness: the slot of an approved booking from 23:45 to 00:15 Stockholm
\* time.
C26_Witness ==
    /\ Projected
    /\ \E k \in DOMAIN last.blockedSlots :
          /\ last.blockedSlots[k].startTime = <<23, 45>>
          /\ last.blockedSlots[k].endTime = <<0, 15>>
          /\ last.blockedSlots[k].date = 1

----------------------------------------------------------------------------
(* Further claim on the admin workflow, under SpecWorkflow *)

\* C29: a step appends a status_changed, assigned or notes_added entry for a
\* booking only if that booking's status, assignee or notes changed in it, so
\* an update that changes no field appends nothing; an update of an id that is
\* not stored changes no booking and appends nothing.
C29_LogsOnlyChanges ==
    [][ /\ \A id \in DOMAIN bookings :
              /\ bookings'[id].statusId = bookings[id].statusId
                 => AppendedOfKind(activityLogs, activityLogs', id, "status_changed") = {}
              /\ bookings'[id].assignedTo = bookings[id].assignedTo
                 => AppendedOfKind(activityLogs, activityLogs', id, "assigned") = {}
              /\ bookings'[id].additionalNotes = bookings[id].additionalNotes
                 => AppendedOfKind(activityLogs, activityLogs', id, "notes_added") = {}
        /\ bookings' = bookings => activityLogs' = activityLogs
        /\ (last' # last /\ last'.op = "put_booking" /\ last'.code = 404)
           => bookings' = bookings /\ activityLogs' = activityLogs ]_vars

\* C29 witness: a PUT on a stored booking was accepted and the last entry of
\* the log is still the one the status route wrote before it: the update, which
\* carried nothing that differs from what is stored, appended nothing.
C29_Witness ==
    /\ last.op = "put_booking" /\ last.code = 200
    /\ last.id \in DOMAIN bookings
    /\ bookings[last.id].statusId = "s2"
    /\ Len(activityLogs) = 3
    /\ activityLogs[3].action = "status_changed"
    /\ activityLogs[3].bookingId = last.id
    /\ Len(activityLogs[3].details) = 3

----------------------------------------------------------------------------
(* Two admin calls that each set a default, statement by statement *)

\* the calls: updateWorkflowStatus(id, {isDefault: true}) on a seeded status
\* other than the default, or createWorkflowStatus of "rejected" as default
DefaultSettingCalls ==
    {[kind |-> "update", id |-> id, slug |-> None] : id \in {"s2", "s3", "s4"}}
    \cup {[kind |-> "create", id |-> None, slug |-> "rejected"]}

CallNames == {"a1", "a2"}

\* the second statement of updateWorkflowStatus: update ... set {...updates}
\* where id = :id
WriteStatusRow(st, id, updates) ==
    {IF s.id = id THEN ApplyStatusUpdates(s, updates) ELSE s : s \in st}

\* the second statement of createWorkflowStatus: insert ... values(...); a slug
\* in use makes it throw
InsertStatusRow(st, statusData) ==
    IF \E s \in st : s.slug = statusData.slug THEN st
    ELSE st \cup {[id |-> NewStatusId(st), slug |-> statusData.slug,
                   name |-> statusData.name, isDefault |-> statusData.isDefault,
                   isFinal |-> statusData.isFinal, isActive |-> statusData.isActive]}

\* two calls on different statuses arrive together
InitConcurrent ==
    /\ statuses = defaultWorkflowStatuses
    /\ bookings = <<>>
    /\ activityLogs = <<>>
    /\ avail = [c \in Clients |-> NoAnswer]
    /\ resp = [c \in Clients |-> 0]
    /\ last = NoRequest
    /\ \E c1 \in DefaultSettingCalls, c2 \in DefaultSettingCalls :
          /\ c1 # c2
          /\ inFlight = [a \in CallNames |->
                           [call |-> IF a = "a1" THEN c1 ELSE c2, pc |-> "start"]]

\* if (isDefault) await update ... set isDefault = false where isDefault = true
ClearStatement(a) ==
    /\ inFlight[a].pc = "start"
    /\ statuses' = ClearDefaults(statuses)
    /\ inFlight' = [inFlight EXCEPT ![a].pc = "cleared"]
    /\ UNCHANGED <<bookings, activityLogs, avail, resp, last>>

\* the statement that writes the row, once the await of the clear has returned
WriteStatement(a) ==
    /\ inFlight[a].pc = "cleared"
    /\ statuses' =
          IF inFlight[a].call.kind = "update"
          THEN WriteStatusRow(statuses, inFlight[a].call.id,
                              [fields |-> {"isDefault"}, isDefault |-> TRUE,
                               isActive |-> TRUE])
          ELSE InsertStatusRow(statuses,
                               [slug |-> inFlight[a].call.slug, name |-> "Avvisad",
                                isDefault |-> TRUE, isFinal |-> FALSE,
                                isActive |-> TRUE])
    /\ inFlight' = [inFlight EXCEPT ![a].pc = "done"]
    /\ UNCHANGED <<bookings, activityLogs, avail, resp, last>>

Clear == \E a \in CallNames : ClearStatement(a)

Write == \E a \in CallNames : WriteStatement(a)

NextConcurrent == Clear \/ Write

SpecConcurrent == InitConcurrent /\ [][NextConcurrent]_vars

----------------------------------------------------------------------------
(* Claim on concurrent default changes, under SpecConcurrent *)

\* C27: once two concurrent calls that each set isDefault = true on a different
\* status have both completed, their statements interleaved in any order, at
\* most one status has isDefault = true.
C27_AtMostOneDefaultAfterBoth ==
    (\A a \in CallNames : inFlight[a].pc = "done")
    => Cardinality({s \in statuses : s.isDefault}) <= 1

====
